---- MODULE Spec2Model ----
(***************************************************************************)
(* A model of the near-Earth-object database: models.py (NearEarthObject,  *)
(* CloseApproach), extract.py (load_neos, load_approaches), database.py    *)
(* (NEODatabase) and filters.py (AttributeFilter and its subclasses,       *)
(* create_filters, limit).                                                 *)
(*                                                                         *)
(* A Python str is a sequence of one-character strings, so that lower()    *)
(* and strip() are computed.  Objects live in two heaps (neoObj, apprObj)  *)
(* and are referred to by their identity: the index of the input row they  *)
(* were constructed from.                                                  *)
(***************************************************************************)
EXTENDS Integers, Sequences, FiniteSets, TLC

\* ------------------------------------------------------------------ bounds

\* Most rows of the NEO file, and most records of the approach file.
MaxNeos == 2
MaxApprs == 3
\* Longest list handed to limit; its elements are drawn from 1..MaxLen.
MaxLen == 3
\* Resolution of a day: a datetime is a count of ticks, TicksPerDay to a day.
TicksPerDay == 2

\* ------------------------------------------------------------- Python values

\* The None singleton: a value different from every str.
None == <<"<None>">>
\* A reference to no NearEarthObject (CloseApproach.neo = None); ids start at 1.
NoNeo == 0

Min(a, b) == IF a <= b THEN a ELSE b
Max(a, b) == IF a >= b THEN a ELSE b

\* str.lower() on one character, over the alphabet of the inputs.
LowerChar(c) ==
    CASE c = "A" -> "a"
      [] c = "B" -> "b"
      [] c = "E" -> "e"
      [] OTHER -> c

\* str.lower()
Lower(s) == [i \in 1..Len(s) |-> LowerChar(s[i])]

RECURSIVE LStrip(_)
LStrip(s) == IF s # <<>> /\ Head(s) = " " THEN LStrip(Tail(s)) ELSE s

RECURSIVE RStrip(_)
RStrip(s) ==
    IF s # <<>> /\ s[Len(s)] = " " THEN RStrip(SubSeq(s, 1, Len(s) - 1)) ELSE s

\* str.strip()
Strip(s) == RStrip(LStrip(s))

\* Typed scalar values: k is the Python type, n the payload.
Num(n) == [k |-> "float", n |-> n]
Bool(b) == [k |-> "bool", n |-> IF b THEN 1 ELSE 0]
Date(d) == [k |-> "date", n |-> d]
NaN == [k |-> "nan", n |-> 0]
\* A one-character ASCII str, held as the code point of its character: two
\* such strs are equal, and ordered, as their code points are.
Str(c) == [k |-> "str", n |-> c]
NoVal == [k |-> "None", n |-> 0]
\* The outcome of an expression that raised exception e.
Raised(e) == [k |-> e, n |-> 0]

\* ord(c) of the characters of the inputs and of the decimal digits.
CodePoint(c) ==
    CASE c = " " -> 32
      [] c = "0" -> 48
      [] c = "1" -> 49
      [] c = "2" -> 50
      [] c = "3" -> 51
      [] c = "4" -> 52
      [] c = "5" -> 53
      [] c = "6" -> 54
      [] c = "7" -> 55
      [] c = "8" -> 56
      [] c = "9" -> 57
      [] c = "A" -> 65
      [] c = "B" -> 66
      [] c = "E" -> 69
      [] c = "N" -> 78
      [] c = "X" -> 88
      [] c = "Y" -> 89
      [] c = "a" -> 97
      [] c = "b" -> 98
      [] c = "e" -> 101

\* float(x): a number from a number, a bool or a str that is a decimal digit,
\* ValueError from any other one-character str, TypeError from a date or None.
FloatOf(x) ==
    CASE x.k = "float" -> x
      [] x.k = "bool" -> Num(x.n)
      [] x.k = "nan" -> x
      [] x.k = "str" -> IF x.n \in CodePoint("0")..CodePoint("9")
                         THEN Num(x.n - CodePoint("0"))
                         ELSE Raised("ValueError")
      [] OTHER -> Raised("TypeError")

\* bool(x): truthiness.
BoolOf(x) ==
    CASE x.k = "float" -> Bool(x.n # 0)
      [] x.k = "bool" -> x
      [] x.k = "None" -> Bool(FALSE)
      [] OTHER -> Bool(TRUE)

IsNumeric(x) == x.k \in {"float", "bool"}

\* operator.eq / operator.ge / operator.le on two values: "True", "False" or
\* the exception raised.  NaN compares false with every number; two strs
\* compare as their texts do; values of unlike types (a date and a number,
\* a str and a bool, None and anything) are unequal and unordered (TypeError).
Compare(opr, a, b) ==
    LET tf(p) == IF p THEN "True" ELSE "False"
        ord(x, y) == CASE opr = "eq" -> tf(x = y)
                       [] opr = "ge" -> tf(x >= y)
                       [] OTHER -> tf(x <= y)
    IN CASE IsNumeric(a) /\ IsNumeric(b) -> ord(a.n, b.n)
         [] a.k = "date" /\ b.k = "date" -> ord(a.n, b.n)
         [] a.k = "str" /\ b.k = "str" -> ord(a.n, b.n)
         [] (a.k = "nan" /\ (IsNumeric(b) \/ b.k = "nan"))
               \/ (b.k = "nan" /\ IsNumeric(a)) -> "False"
         [] OTHER -> IF opr = "eq" THEN tf(a = b) ELSE "TypeError"

\* ------------------------------------------------------------------- inputs

\* Rows of the NEO file (pdes, name, pha, diameter); diameter 0 is the empty
\* field.
NeoRows ==
    { [pdes |-> <<"A", "b">>, name |-> <<"E">>, pha |-> "Y", diameter |-> 2],
      [pdes |-> <<"a", "b">>, name |-> <<"e">>, pha |-> "N", diameter |-> 0],
      [pdes |-> <<"b">>, name |-> <<" ">>, pha |-> "", diameter |-> 1] }

\* Records of the approach file (des, cd, dist, v_rel); cd is <<day, tick>>.
ApprRows ==
    { [des |-> <<"A", "b">>, cd |-> <<1, 0>>, dist |-> 1, v_rel |-> 2],
      [des |-> <<"a", "b">>, cd |-> <<2, 1>>, dist |-> 2, v_rel |-> 1],
      [des |-> <<"A", "b">>, cd |-> <<2, 0>>, dist |-> 1, v_rel |-> 1],
      [des |-> <<"B">>, cd |-> <<1, 1>>, dist |-> 2, v_rel |-> 2] }

SeqsUpTo(S, n) == UNION { [1..m -> S] : m \in 0..n }

\* ------------------------------------------------------------------- models

\* helpers.cd_to_datetime: the datetime of a textual timestamp, as ticks.
cd_to_datetime(cd) == cd[1] * TicksPerDay + cd[2]

\* datetime.date(): the calendar date, time of day discarded.
DateOf(time) == Date(time \div TicksPerDay)

\* NearEarthObject.__init__
NearEarthObject(info) ==
    [ name |-> IF info.name = None \/ Strip(info.name) = <<>>
               THEN None ELSE Strip(info.name),
      diameter |-> IF info.diameter = 0 THEN NaN ELSE Num(info.diameter),
      hazardous |-> CASE info.hazardous = "Y" -> Bool(TRUE)
                      [] info.hazardous \in {"", "N"} -> Bool(FALSE)
                      [] OTHER -> Str(CodePoint(info.hazardous)),
      designation |-> IF info.designation = None \/ Strip(info.designation) = <<>>
                      THEN None ELSE Strip(info.designation),
      approaches |-> <<>> ]

\* CloseApproach.__init__: distance and velocity are set to 0.0 and the
\* supplied measurements are not read.
CloseApproach(info) ==
    [ distance |-> Num(0),
      velocity |-> Num(0),
      time |-> cd_to_datetime(info.time),
      designation |-> Strip(info.designation),
      neo |-> NoNeo ]

\* NearEarthObject.pdes
pdes(neo) == neo.designation

\* CloseApproach.neopdes
neopdes(apprch) == apprch.designation

\* The objects constructed from the rows, by identity (the row's index).
NeoHeap(rows) ==
    [ i \in 1..Len(rows) |->
        NearEarthObject([ name |-> rows[i].name, designation |-> rows[i].pdes,
                          hazardous |-> rows[i].pha,
                          diameter |-> rows[i].diameter ]) ]

ApprHeap(recs) ==
    [ i \in 1..Len(recs) |->
        CloseApproach([ designation |-> recs[i].des, time |-> recs[i].cd,
                        distance |-> recs[i].dist,
                        velocity |-> recs[i].v_rel ]) ]

\* ----------------------------------------------------- ordered dictionaries
\* A dict is the sequence of its entries [key, val] in insertion order.

HasKey(d, key) == \E i \in 1..Len(d) : d[i].key = key

IndexOfKey(d, key) == CHOOSE i \in 1..Len(d) : d[i].key = key

\* d[key]; only read where HasKey(d, key).
Lookup(d, key) == d[IndexOfKey(d, key)].val

\* d[key] = val: a new key goes last, a known key keeps its place.
SetItem(d, key, val) ==
    IF HasKey(d, key)
    THEN [d EXCEPT ![IndexOfKey(d, key)] = [key |-> key, val |-> val]]
    ELSE Append(d, [key |-> key, val |-> val])

\* ------------------------------------------------------------------ extract

\* load_neos: the dict from pdes.lower() to the NearEarthObject of the row,
\* a later row replacing an earlier one of the same key.
RECURSIVE load_neos_from(_, _, _)
load_neos_from(rows, i, parsed) ==
    IF i > Len(rows) THEN parsed
    ELSE load_neos_from(rows, i + 1, SetItem(parsed, Lower(rows[i].pdes), i))

load_neos(rows) == load_neos_from(rows, 1, <<>>)

\* load_approaches: the defaultdict(list) from pdes.lower() to the
\* CloseApproaches of that key, in record order.
RECURSIVE load_approaches_from(_, _, _)
load_approaches_from(recs, i, mapped) ==
    IF i > Len(recs) THEN mapped
    ELSE LET key == Lower(recs[i].des)
             old == IF HasKey(mapped, key) THEN Lookup(mapped, key) ELSE <<>>
         IN load_approaches_from(recs, i + 1, SetItem(mapped, key, Append(old, i)))

load_approaches(recs) == load_approaches_from(recs, 1, <<>>)

\* The flat representation: the objects of all rows, in row order.
flat_neos(rows) == [i \in 1..Len(rows) |-> i]

flat_approaches(recs) == [i \in 1..Len(recs) |-> i]

\* -------------------------------------------------------------------- state

VARIABLES
    neoRows,        \* the rows the NEOs were read from
    apprRecs,       \* the records the approaches were read from
    neoObj,         \* heap of NearEarthObjects, by id
    apprObj,        \* heap of CloseApproaches, by id
    use_map,        \* NEODatabase.use_map
    db_neos,        \* NEODatabase._neos: a list of ids, or a dict key -> id
    db_approaches,  \* NEODatabase._approaches: a list of ids, or a dict key -> ids
    phase,          \* "new", "ready" (constructed) or "raised" (KeyError in __init__)
    call            \* the call last made on the database, and its outcome

vars == <<neoRows, apprRecs, neoObj, apprObj, use_map, db_neos, db_approaches,
          phase, call>>

dbvars == <<neoRows, apprRecs, neoObj, apprObj, use_map, db_neos, db_approaches,
            phase>>

NoCall == [op |-> "none"]

\* The collections as loaded, not yet linked, and the database not yet built.
Init ==
    /\ neoRows \in SeqsUpTo(NeoRows, MaxNeos)
    /\ apprRecs \in SeqsUpTo(ApprRows, MaxApprs)
    /\ use_map \in BOOLEAN
    /\ neoObj = NeoHeap(neoRows)
    /\ apprObj = ApprHeap(apprRecs)
    /\ db_neos = IF use_map THEN load_neos(neoRows) ELSE flat_neos(neoRows)
    /\ db_approaches = IF use_map THEN load_approaches(apprRecs)
                       ELSE flat_approaches(apprRecs)
    /\ phase = "new"
    /\ call = NoCall

\* ----------------------------------------------------------------- database

\* An approached_as that records the approaches and leaves their neo unset.
RECURSIVE approached_as_no_backref(_, _, _)
approached_as_no_backref(h, n, apprchs) ==
    IF apprchs = <<>> THEN h
    ELSE approached_as_no_backref(
            [ neo |-> [h.neo EXCEPT ![n].approaches = Append(@, Head(apprchs))],
              appr |-> h.appr ],
            n, Tail(apprchs))

\* NearEarthObject.approached_as, on the heaps h = [neo, appr]: every
\* approach is appended to the NEO's approaches and made to refer to it.
RECURSIVE approached_as(_, _, _)
approached_as(h, n, apprchs) ==
    IF apprchs = <<>> THEN h
    ELSE LET a == Head(apprchs) IN
         approached_as(
            [ neo |-> [h.neo EXCEPT ![n].approaches = Append(@, a)],
              appr |-> [h.appr EXCEPT ![a].neo = n] ],
            n, Tail(apprchs))

\* The inner loop of the flat linking: approach a against NEOs ni.. of the
\* list, by equality of the two designations.
RECURSIVE LinkFlatInner(_, _, _, _)
LinkFlatInner(h, neos, a, ni) ==
    IF ni > Len(neos) THEN h
    ELSE LinkFlatInner(
            IF pdes(h.neo[neos[ni]]) = neopdes(h.appr[a])
            THEN approached_as(h, neos[ni], <<a>>) ELSE h,
            neos, a, ni + 1)

\* The outer loop of the flat linking, over approaches ai.. of the list.
RECURSIVE LinkFlat(_, _, _, _)
LinkFlat(h, neos, approaches, ai) ==
    IF ai > Len(approaches) THEN [neo |-> h.neo, appr |-> h.appr, err |-> "none"]
    ELSE LinkFlat(LinkFlatInner(h, neos, approaches[ai], 1), neos, approaches,
                  ai + 1)

\* The mapped linking, over the keys gi.. of the approaches dict: neos[key]
\* raises KeyError for a key the NEO dict does not hold, and the objects
\* linked before it stay linked.
RECURSIVE LinkMapped(_, _, _, _)
LinkMapped(h, neos, approaches, gi) ==
    IF gi > Len(approaches) THEN [neo |-> h.neo, appr |-> h.appr, err |-> "none"]
    ELSE LET key == approaches[gi].key IN
         IF ~HasKey(neos, key)
         THEN [neo |-> h.neo, appr |-> h.appr, err |-> "KeyError"]
         ELSE LinkMapped(approached_as(h, Lookup(neos, key), approaches[gi].val),
                         neos, approaches, gi + 1)

\* The linking of NEODatabase.__init__.
Link(h, neos, approaches, um) ==
    IF um THEN LinkMapped(h, neos, approaches, 1)
    ELSE LinkFlat(h, neos, approaches, 1)

\* NEODatabase.__init__
Construct ==
    /\ phase = "new"
    /\ LET r == Link([neo |-> neoObj, appr |-> apprObj], db_neos, db_approaches,
                     use_map)
       IN /\ neoObj' = r.neo
          /\ apprObj' = r.appr
          /\ phase' = IF r.err = "none" THEN "ready" ELSE "raised"
    /\ UNCHANGED <<neoRows, apprRecs, use_map, db_neos, db_approaches, call>>

\* The values of the NEO collection in iteration order: the ids.
NeoIds == IF use_map THEN [i \in 1..Len(db_neos) |-> db_neos[i].val] ELSE db_neos

\* The approaches in iteration order: the list, or the dict's lists in key
\* order.
RECURSIVE Flatten(_)
Flatten(d) == IF d = <<>> THEN <<>> ELSE Head(d).val \o Flatten(Tail(d))

ApprIds == IF use_map THEN Flatten(db_approaches) ELSE db_approaches

\* The first position from i on at which s holds x, or 0: a scan that breaks
\* at the first match.
RECURSIVE FirstIndex(_, _, _)
FirstIndex(s, x, i) ==
    IF i > Len(s) THEN 0 ELSE IF s[i] = x THEN i ELSE FirstIndex(s, x, i + 1)

\* NEODatabase.get_neo_by_designation: the id found, or NoNeo.  The key is
\* compared with the dict's keys, or with each NEO's pdes.
get_neo_by_designation(designation) ==
    IF designation = None \/ designation = <<>> THEN NoNeo
    ELSE LET keys == IF use_map
                     THEN [i \in 1..Len(db_neos) |-> db_neos[i].key]
                     ELSE [i \in 1..Len(db_neos) |-> pdes(neoObj[db_neos[i]])]
             i == FirstIndex(keys, designation, 1)
         IN IF i = 0 THEN NoNeo ELSE NeoIds[i]

\* A scan by name that compares the names ignoring letter case.
RECURSIVE ScanByNameLower(_, _, _)
ScanByNameLower(ids, name, i) ==
    IF i > Len(ids) THEN NoNeo
    ELSE IF neoObj[ids[i]].name = None \/ neoObj[ids[i]].name = <<>>
         THEN ScanByNameLower(ids, name, i + 1)
         ELSE IF Lower(neoObj[ids[i]].name) = Lower(name) THEN ids[i]
              ELSE ScanByNameLower(ids, name, i + 1)

\* The scan of get_neo_by_name from position i: NEOs without a name are
\* skipped, the first NEO of that very name is found.
RECURSIVE ScanByName(_, _, _)
ScanByName(ids, name, i) ==
    IF i > Len(ids) THEN NoNeo
    ELSE IF neoObj[ids[i]].name = None \/ neoObj[ids[i]].name = <<>>
         THEN ScanByName(ids, name, i + 1)
         ELSE IF neoObj[ids[i]].name = name THEN ids[i]
              ELSE ScanByName(ids, name, i + 1)

\* NEODatabase.get_neo_by_name: the id found, or NoNeo.
get_neo_by_name(name) ==
    IF name = None \/ name = <<>> THEN NoNeo ELSE ScanByName(NeoIds, name, 1)

\* The keys looked up.
Keys ==
    { None, <<>>, <<"A", "b">>, <<"a", "b">>, <<"A", "B">>, <<"b">>, <<"a">>,
      <<"E">>, <<"e">> }

GetNeoByDesignation ==
    /\ phase = "ready"
    /\ call = NoCall
    /\ \E key \in Keys :
         call' = [op |-> "get_neo_by_designation", key |-> key,
                  ret |-> get_neo_by_designation(key)]
    /\ UNCHANGED dbvars

GetNeoByName ==
    /\ phase = "ready"
    /\ call = NoCall
    /\ \E key \in Keys :
         call' = [op |-> "get_neo_by_name", key |-> key,
                  ret |-> get_neo_by_name(key)]
    /\ UNCHANGED dbvars

\* ------------------------------------------------------------------ filters

\* AttributeFilter.__init__: a filter is its class, comparator and value.
AttributeFilter(cls, opr, value) == [cls |-> cls, opr |-> opr, value |-> value]

\* The prop classmethod of each filter class, on approach object apprch with
\* NEO heap neos: the attribute, or the exception raised.  approach.neo is
\* None for an unlinked approach, and None has no attributes.
Prop(cls, apprch, neos) ==
    CASE cls = "FilterByDiameter" ->
            IF apprch.neo = NoNeo THEN Raised("AttributeError")
            ELSE neos[apprch.neo].diameter
      [] cls = "FilterByHazardous" ->
            IF apprch.neo = NoNeo THEN Raised("AttributeError")
            ELSE neos[apprch.neo].hazardous
      [] cls = "FilterByVelocity" -> apprch.velocity
      [] cls = "FilterByDistance" -> apprch.distance
      [] cls = "FilterByDate" -> DateOf(apprch.time)
      [] OTHER -> Raised("UnsupportedCriterionError")

IsRaised(v) == v.k \in {"AttributeError", "TypeError", "ValueError", "UnsupportedCriterionError"}

\* AttributeFilter.__call__: "True", "False" or the exception raised.
FilterCall(f, apprch, neos) ==
    LET v == Prop(f.cls, apprch, neos) IN
    IF IsRaised(v) THEN v.k ELSE Compare(f.opr, v, f.value)

\* create_filters: the tuple of filters of the arguments that are not None,
\* in the order of the code, or the exception a conversion raised.
create_filters(args) ==
    LET all == << <<"FilterByDiameter", "ge", args.diameter_min, "float">>,
                  <<"FilterByDiameter", "le", args.diameter_max, "float">>,
                  <<"FilterByHazardous", "eq", args.hazardous, "bool">>,
                  <<"FilterByVelocity", "ge", args.velocity_min, "float">>,
                  <<"FilterByVelocity", "le", args.velocity_max, "float">>,
                  <<"FilterByDistance", "ge", args.distance_min, "float">>,
                  <<"FilterByDistance", "le", args.distance_max, "float">>,
                  <<"FilterByDate", "eq", args.date, "float">>,
                  <<"FilterByDate", "ge", args.start_date, "float">>,
                  <<"FilterByDate", "le", args.end_date, "float">> >>
        given == SelectSeq(all, LAMBDA c : c[3] # NoVal)
        made == [ i \in 1..Len(given) |->
                    AttributeFilter(given[i][1], given[i][2],
                                    IF given[i][4] = "float"
                                    THEN FloatOf(given[i][3])
                                    ELSE BoolOf(given[i][3])) ]
        failed == {i \in 1..Len(made) : IsRaised(made[i].value)}
    IN IF failed # {}
       THEN [err |-> made[CHOOSE i \in failed : \A j \in failed : i <= j].value.k,
             filters |-> <<>>]
       ELSE [err |-> "none", filters |-> made]

\* A limit that takes only a None cap, not a cap of 0, for "no limit".
limit_zero_is_cap(iterator, cap) ==
    IF iterator.kind # "list"
    THEN [err |-> "TypeError", items |-> <<>>, pulled |-> 0]
    ELSE LET n == Len(iterator.items)
             c == IF cap = NoVal THEN n ELSE cap.n
             stop == IF c >= 0 THEN Min(c, n) ELSE Max(n + c, 0)
         IN [err |-> "none", items |-> SubSeq(iterator.items, 1, stop),
             pulled |-> 0]

\* limit: iterator[:cap], with cap = len(iterator) when cap is None or 0.
\* A list has a length and slices; a generator has neither (TypeError).
\* pulled counts the values taken from a generator.
limit(iterator, cap) ==
    IF iterator.kind # "list"
    THEN [err |-> "TypeError", items |-> <<>>, pulled |-> 0]
    ELSE LET n == Len(iterator.items)
             c == IF cap = NoVal \/ cap = Num(0) THEN n ELSE cap.n
             stop == IF c >= 0 THEN Min(c, n) ELSE Max(n + c, 0)
         IN [err |-> "none", items |-> SubSeq(iterator.items, 1, stop),
             pulled |-> 0]

\* -------------------------------------------------------------------- query

\* A predicate that is no AttributeFilter: a callable returning value on every
\* approach (lambda approach: value).
Callable(value) == [cls |-> "callable", opr |-> "const", value |-> value]

\* fltr(apprch), as query calls each member of filters, and its truth value.
Apply(f, apprch, neos) ==
    IF f.cls = "callable"
    THEN (IF BoolOf(f.value) = Bool(TRUE) THEN "True" ELSE "False")
    ELSE FilterCall(f, apprch, neos)

\* A filter loop with the test inverted: it stops at the first filter that
\* is true.
RECURSIVE EvalFilters_inverted(_, _, _, _)
EvalFilters_inverted(filters, a, k, evals) ==
    IF k > Len(filters) THEN [res |-> "pass", evals |-> evals]
    ELSE LET r == Apply(filters[k], apprObj[a], neoObj)
             log == Append(evals, <<a, k>>)
         IN CASE r = "False" -> EvalFilters_inverted(filters, a, k + 1, log)
              [] r = "True" -> [res |-> "fail", evals |-> log]
              [] OTHER -> [res |-> r, evals |-> log]

\* A filter loop without the break: the filters after a failing one are
\* still called.
RECURSIVE EvalFilters_no_break(_, _, _, _)
EvalFilters_no_break(filters, a, k, evals) ==
    IF k > Len(filters) THEN [res |-> "pass", evals |-> evals]
    ELSE LET r == Apply(filters[k], apprObj[a], neoObj)
             log == Append(evals, <<a, k>>)
             rest == EvalFilters_no_break(filters, a, k + 1, log)
         IN CASE r = "True" -> rest
              [] r = "False" ->
                    IF rest.res \in {"pass", "fail"}
                    THEN [res |-> "fail", evals |-> rest.evals] ELSE rest
              [] OTHER -> [res |-> r, evals |-> log]

\* The filter loop of query on approach a from filter k on: "pass" when no
\* filter is left, "fail" at the first filter that is not true, the
\* exception where one is raised; evals logs the <<approach, filter>> calls.
RECURSIVE EvalFilters(_, _, _, _)
EvalFilters(filters, a, k, evals) ==
    IF k > Len(filters) THEN [res |-> "pass", evals |-> evals]
    ELSE LET r == Apply(filters[k], apprObj[a], neoObj)
             log == Append(evals, <<a, k>>)
         IN CASE r = "True" -> EvalFilters(filters, a, k + 1, log)
              [] r = "False" -> [res |-> "fail", evals |-> log]
              [] OTHER -> [res |-> r, evals |-> log]

\* The generator of query on the flat list, resumed at approach i: it runs to
\* its next yield, to its end, or to an exception.
RECURSIVE RunFlat(_, _)
RunFlat(g, i) ==
    IF i > Len(db_approaches) THEN [g EXCEPT !.status = "done", !.i = i]
    ELSE LET a == db_approaches[i]
             e == EvalFilters(g.filters, a, 1, g.evals)
             g1 == [g EXCEPT !.evals = e.evals]
         IN CASE e.res = "pass" ->
                    [g1 EXCEPT !.status = "suspended", !.i = i + 1,
                               !.yielded = Append(@, a)]
              [] e.res = "fail" -> RunFlat(g1, i + 1)
              [] OTHER -> [g1 EXCEPT !.status = "raised", !.err = e.res, !.i = i]

\* The generator of query on the dict, resumed at approach j of key i with
\* the flag elligible: the flag is set on entering a key and cleared by a
\* failing approach.
RECURSIVE RunMapped(_, _, _, _)
RunMapped(g, i, j, elligible) ==
    IF i > Len(db_approaches)
    THEN [g EXCEPT !.status = "done", !.i = i, !.j = j, !.elligible = elligible]
    ELSE IF j > Len(db_approaches[i].val) THEN RunMapped(g, i + 1, 1, TRUE)
    ELSE LET a == db_approaches[i].val[j]
             e == EvalFilters(g.filters, a, 1, g.evals)
             g1 == [g EXCEPT !.evals = e.evals]
             ell == elligible /\ e.res = "pass"
         IN CASE e.res \notin {"pass", "fail"} ->
                    [g1 EXCEPT !.status = "raised", !.err = e.res, !.i = i,
                               !.j = j, !.elligible = elligible]
              [] ell -> [g1 EXCEPT !.status = "suspended", !.i = i, !.j = j + 1,
                                   !.elligible = TRUE, !.yielded = Append(@, a)]
              [] OTHER -> RunMapped(g1, i, j + 1, FALSE)

\* NEODatabase.query: the generator object, not yet started.
query(filters) ==
    [ op |-> "query", filters |-> filters, status |-> "created", err |-> "none",
      i |-> 1, j |-> 1, elligible |-> TRUE, yielded |-> <<>>, evals |-> <<>> ]

\* next() on the generator g.
Resume(g) ==
    IF use_map THEN RunMapped(g, g.i, g.j, g.elligible) ELSE RunFlat(g, g.i)

\* The filters of the queries.
Filters ==
    { AttributeFilter("FilterByDate", "eq", Date(1)),
      AttributeFilter("FilterByDate", "ge", Date(2)),
      AttributeFilter("FilterByDate", "le", Num(1)),
      AttributeFilter("FilterByHazardous", "eq", Bool(TRUE)),
      AttributeFilter("FilterByDiameter", "ge", Num(1)),
      AttributeFilter("FilterByDiameter", "le", Num(1)),
      AttributeFilter("FilterByDistance", "le", Num(0)),
      AttributeFilter("FilterByVelocity", "ge", Num(1)) }

\* The filter collections of the queries.
FilterSets ==
    {<<>>} \cup { <<f>> : f \in Filters }
      \cup { <<AttributeFilter("FilterByDistance", "le", Num(0)), f>> :
                f \in { AttributeFilter("FilterByDate", "eq", Date(1)),
                        AttributeFilter("FilterByHazardous", "eq", Bool(TRUE)) } }
      \cup { << AttributeFilter("FilterByDate", "eq", Date(1)),
                AttributeFilter("FilterByHazardous", "eq", Bool(TRUE)) >>,
             << AttributeFilter("FilterByVelocity", "ge", Num(1)),
                AttributeFilter("FilterByHazardous", "eq", Bool(TRUE)) >>,
             << Callable(Bool(TRUE)) >>,
             << Callable(Bool(FALSE)) >> }

\* query(filters) is called.
Query ==
    /\ phase = "ready"
    /\ call = NoCall
    /\ \E filters \in FilterSets : call' = query(filters)
    /\ UNCHANGED dbvars

\* The consumer pulls the next value from the stream.
QueryNext ==
    /\ phase = "ready"
    /\ call.op = "query"
    /\ call.status \in {"created", "suspended"}
    /\ call' = Resume(call)
    /\ UNCHANGED dbvars

\* The caps of limit.
Caps == {NoVal} \cup { Num(c) : c \in 0..MaxApprs }

\* limit(query(filters), cap): limit is handed the generator.
LimitQuery ==
    /\ phase = "ready"
    /\ call = NoCall
    /\ call = NoCall
    /\ \E filters \in FilterSets, cap \in Caps :
         LET r == limit([kind |-> "generator", gen |-> query(filters)], cap) IN
         call' = [op |-> "limit_query", filters |-> filters, cap |-> cap,
                  err |-> r.err, items |-> r.items, pulled |-> r.pulled]
    /\ UNCHANGED dbvars

\* The caller drops the result of its last call; the next call is independent.
Return ==
    /\ call # NoCall
    /\ call' = NoCall
    /\ UNCHANGED dbvars

Next ==
    \/ Construct
    \/ GetNeoByDesignation
    \/ GetNeoByName
    \/ Query
    \/ QueryNext
    \/ LimitQuery
    \/ Return

Spec == Init /\ [][Next]_vars

\* ------------------------------------------------------- limit on a list

\* No database: only the pure functions are called.
InitPure ==
    /\ neoRows = <<>>
    /\ apprRecs = <<>>
    /\ use_map = FALSE
    /\ neoObj = NeoHeap(neoRows)
    /\ apprObj = ApprHeap(apprRecs)
    /\ db_neos = flat_neos(neoRows)
    /\ db_approaches = flat_approaches(apprRecs)
    /\ phase = "new"
    /\ call = NoCall

\* limit(seq, cap) on a list of up to MaxLen values.
Limit ==
    /\ call = NoCall
    /\ \E seq \in SeqsUpTo(1..MaxLen, MaxLen),
          cap \in {NoVal} \cup { Num(c) : c \in -1..(MaxLen + 1) } :
         LET r == limit([kind |-> "list", items |-> seq], cap) IN
         call' = [op |-> "limit", seq |-> seq, cap |-> cap, err |-> r.err,
                  items |-> r.items]
    /\ UNCHANGED dbvars

SpecLimit == InitPure /\ [][Limit \/ Return]_vars

\* ------------------------------------------------------- create_filters

DateArgs == {NoVal, Date(1), Date(2), Num(1)}
NumArgs == {NoVal, Num(1)}
BoolArgs == {NoVal, Bool(TRUE), Bool(FALSE)}

\* create_filters(**args)
CreateFilters ==
    /\ call = NoCall
    /\ \E d \in DateArgs, sd \in DateArgs, ed \in DateArgs, hz \in BoolArgs,
          dmin \in NumArgs, dmax \in NumArgs, vmin \in NumArgs,
          vmax \in NumArgs, dimin \in NumArgs, dimax \in NumArgs :
         LET args == [ date |-> d, start_date |-> sd, end_date |-> ed,
                       distance_min |-> dmin, distance_max |-> dmax,
                       velocity_min |-> vmin, velocity_max |-> vmax,
                       diameter_min |-> dimin, diameter_max |-> dimax,
                       hazardous |-> hz ]
             r == create_filters(args)
         IN call' = [op |-> "create_filters", args |-> args, err |-> r.err,
                     filters |-> r.filters]
    /\ UNCHANGED dbvars

SpecFilters == InitPure /\ [][CreateFilters \/ Return]_vars

\* ------------------------------------------------------------------- claims

\* The Entities and Events of the database.
Entities == { NeoIds[i] : i \in 1..Len(NeoIds) }
Events == { ApprIds[i] : i \in 1..Len(ApprIds) }

\* Two designations are equal ignoring letter case.
SameKey(a, b) == a # None /\ b # None /\ Lower(a) = Lower(b)

\* Event x's entity_key matches Entity e's designation.
Matches(x, e) == SameKey(apprObj[x].designation, neoObj[e].designation)

\* No two rows of the NEO file share a designation, ignoring letter case.
DistinctDesignations ==
    \A i, j \in 1..Len(neoRows) :
        i # j => ~SameKey(Strip(neoRows[i].pdes), Strip(neoRows[j].pdes))

Range(s) == { s[i] : i \in 1..Len(s) }

\* Every filter of the collection returns true on event x.
PassesAll(filters, x) ==
    \A k \in 1..Len(filters) : Apply(filters[k], apprObj[x], neoObj) = "True"

\* s is the subsequence of the stored events that satisfy P, in stored order.
IsSelection(s, P(_)) == s = SelectSeq(ApprIds, P)

EntityScoped(f) == f.cls \in {"FilterByDiameter", "FilterByHazardous"}

\* C1: a query that has run to its end has yielded exactly the stored events
\* on which every filter returns true, each once, in stored order, under both
\* representations.
C1_QueryYieldsAllMatches ==
    (call.op = "query" /\ call.status = "done")
        => IsSelection(call.yielded, LAMBDA x : PassesAll(call.filters, x))

\* C2: after construction, every Event whose entity_key equals an Entity's
\* designation ignoring letter case refers to that Entity and is among its
\* approaches, under both representations.
C2_MatchingKeysAreLinked ==
    (phase = "ready" /\ DistinctDesignations)
        => \A e \in Entities, x \in Events :
              Matches(x, e)
                 => apprObj[x].neo = e /\ x \in Range(neoObj[e].approaches)

\* The linkage the other representation builds from the same rows.
OtherLinkage ==
    Link([neo |-> NeoHeap(neoRows), appr |-> ApprHeap(apprRecs)],
         IF use_map THEN flat_neos(neoRows) ELSE load_neos(neoRows),
         IF use_map THEN flat_approaches(apprRecs) ELSE load_approaches(apprRecs),
         ~use_map)

\* C3: from the same rows, the flat and the mapped construction end in the
\* same linkage: the same entity reference for every event and the same
\* approaches, in the same order, for every entity.
C3_FlatAndMappedLinkAlike ==
    (phase # "new" /\ DistinctDesignations)
        => /\ phase = "ready"
           /\ OtherLinkage.err = "none"
           /\ \A x \in 1..Len(apprRecs) : apprObj[x].neo = OtherLinkage.appr[x].neo
           /\ \A e \in 1..Len(neoRows) :
                 neoObj[e].approaches = OtherLinkage.neo[e].approaches

\* Event x matches no Entity of the database.
Unmatched(x) == \A e \in Entities : ~Matches(x, e)

\* C4: when some event matches no Entity, construction still completes, the
\* event's neo stays absent and it is in no Entity's approaches, under both
\* representations.
C4_UnmatchedEventsStayUnlinked ==
    (phase # "new" /\ \E x \in Events : Unmatched(x))
        => /\ phase = "ready"
           /\ \A x \in Events :
                 Unmatched(x)
                    => /\ apprObj[x].neo = NoNeo
                       /\ \A e \in 1..Len(neoRows) :
                             x \notin Range(neoObj[e].approaches)

\* C5: a query with an entity-scoped filter over a dataset holding an event
\* with absent neo does not fail; run to its end it has yielded no unlinked
\* event and every linked event that satisfies all the filters.
C5_EntityFilterSkipsUnlinked ==
    ( /\ call.op = "query"
      /\ \E k \in 1..Len(call.filters) : EntityScoped(call.filters[k])
      /\ \E x \in Events : apprObj[x].neo = NoNeo )
        => /\ call.err # "AttributeError"
           /\ call.status = "done"
                 => /\ \A x \in Range(call.yielded) : apprObj[x].neo # NoNeo
                    /\ \A x \in Events :
                          (apprObj[x].neo # NoNeo /\ PassesAll(call.filters, x))
                             => x \in Range(call.yielded)

\* C6: limit chained on the stream of query succeeds for every cap, returns
\* at most cap events for a positive cap, and pulls at most cap events from
\* the stream.
C6_LimitOnLazyStream ==
    call.op = "limit_query"
        => /\ call.err = "none"
           /\ (call.cap # NoVal /\ call.cap.n > 0)
                 => Len(call.items) <= call.cap.n /\ call.pulled <= call.cap.n

\* s is the first k elements of t, in order.
IsPrefix(s, t, k) == Len(s) = k /\ \A i \in 1..k : s[i] = t[i]

\* C7: on a list, limit with cap 0 or None returns all elements in order,
\* with 0 < cap < len the first cap elements in order, and with cap >= len
\* all elements.
C7_LimitOnList ==
    (call.op = "limit" /\ (call.cap = NoVal \/ call.cap.n >= 0))
        => /\ call.err = "none"
           /\ IsPrefix(call.items, call.seq,
                       IF call.cap = NoVal \/ call.cap.n = 0
                          \/ call.cap.n >= Len(call.seq)
                       THEN Len(call.seq) ELSE call.cap.n)

\* A list longer than the positive cap was cut to the cap.
C7_Witness ==
    /\ call.op = "limit"
    /\ call.cap # NoVal
    /\ call.cap.n = 2
    /\ Len(call.seq) = 3
    /\ call.items = SubSeq(call.seq, 1, 2)

\* C8: get_neo_by_designation returns the Entity whose designation equals the
\* key ignoring letter case when there is one, absent when there is none,
\* and absent for a None or empty key, under both representations.
C8_DesignationLookupIgnoresCase ==
    (call.op = "get_neo_by_designation" /\ DistinctDesignations)
        => /\ (call.key = None \/ call.key = <<>>) => call.ret = NoNeo
           /\ \A e \in Entities :
                 SameKey(neoObj[e].designation, call.key) => call.ret = e
           /\ (\A e \in Entities : ~SameKey(neoObj[e].designation, call.key))
                 => call.ret = NoNeo

\* Index i is the first position of the NEO collection whose Entity has a
\* name that P accepts.
FirstNamed(i, P(_)) ==
    /\ P(neoObj[NeoIds[i]].name)
    /\ \A j \in 1..(i - 1) : ~P(neoObj[NeoIds[j]].name)

\* What get_neo_by_name must return when names match by P.
NameLookupIs(P(_)) ==
    /\ (call.key = None \/ call.key = <<>>) => call.ret = NoNeo
    /\ call.ret # NoNeo => neoObj[call.ret].name \notin {None, <<>>}
    /\ (call.key # None /\ call.key # <<>>)
          => /\ \A i \in 1..Len(NeoIds) : FirstNamed(i, P) => call.ret = NeoIds[i]
             /\ (\A i \in 1..Len(NeoIds) : ~P(neoObj[NeoIds[i]].name))
                   => call.ret = NoNeo

\* C9 as claimed: get_neo_by_name returns the first Entity in construction
\* order whose name equals the key ignoring letter case, absent when there
\* is none, never an Entity without a name, and absent for a None or empty
\* key.
C9_NameLookupIgnoresCase ==
    call.op = "get_neo_by_name"
        => NameLookupIs(LAMBDA n : SameKey(n, call.key))

\* C9 as amended: get_neo_by_name returns the first Entity in construction
\* order whose name is exactly the key, letter case included, absent when
\* there is none, never an Entity without a name, and absent for a None or
\* empty key.
C9_NameLookupIsExact ==
    call.op = "get_neo_by_name"
        => NameLookupIs(LAMBDA n : n # None /\ n = call.key)

\* A lookup by name found the second Entity of the collection, the first one
\* bearing the same name in another letter case.
C9_Witness ==
    /\ call.op = "get_neo_by_name"
    /\ Len(NeoIds) = 2
    /\ call.ret = NeoIds[2]
    /\ neoObj[NeoIds[1]].name # call.key
    /\ SameKey(neoObj[NeoIds[1]].name, call.key)

\* An unlinked approach at datetime t.
ApproachAt(t) ==
    [distance |-> Num(0), velocity |-> Num(0), time |-> t,
     designation |-> <<>>, neo |-> NoNeo]

\* The filter create_filters returned accepts an approach at t exactly when
\* ok holds of the calendar date of t.
AcceptsExactly(f, ok(_)) ==
    \A d \in 0..3, tick \in 0..(TicksPerDay - 1) :
        (FilterCall(f, ApproachAt(d * TicksPerDay + tick), <<>>) = "True") <=> ok(d)

\* C10: create_filters with a calendar date for date, start_date or end_date
\* alone returns, without raising, one predicate that accepts an event
\* exactly when the calendar date of its time is equal to, on or after, or on
\* or before that date.
C10_DateFiltersCompareDates ==
    LET a == call.args
        others == /\ a.distance_min = NoVal /\ a.distance_max = NoVal
                  /\ a.velocity_min = NoVal /\ a.velocity_max = NoVal
                  /\ a.diameter_min = NoVal /\ a.diameter_max = NoVal
                  /\ a.hazardous = NoVal
        good(ok(_)) == /\ call.err = "none"
                       /\ Len(call.filters) = 1
                       /\ AcceptsExactly(call.filters[1], ok)
    IN (call.op = "create_filters" /\ others)
          => /\ (a.date.k = "date" /\ a.start_date = NoVal /\ a.end_date = NoVal)
                   => good(LAMBDA d : d = a.date.n)
             /\ (a.start_date.k = "date" /\ a.date = NoVal /\ a.end_date = NoVal)
                   => good(LAMBDA d : d >= a.start_date.n)
             /\ (a.end_date.k = "date" /\ a.date = NoVal /\ a.start_date = NoVal)
                   => good(LAMBDA d : d <= a.end_date.n)


\* C11: an Event constructed from a record whose dist and v_rel fields are
\* numbers holds those numbers as its distance and velocity; every record of
\* the input carries both, so no Event holds the default 0.0.
C11_MeasurementsAreHeld ==
    \A x \in 1..Len(apprRecs) :
        /\ apprObj[x].distance = Num(apprRecs[x].dist)
        /\ apprObj[x].velocity = Num(apprRecs[x].v_rel)


\* The ids of the events constructed from the records, each once.
IsEveryEventOnce(s) ==
    /\ Len(s) = Len(apprRecs)
    /\ \A x \in 1..Len(apprRecs) : Cardinality({i \in 1..Len(s) : s[i] = x}) = 1

\* C12: a query with no filter that has run to its end has yielded every
\* Event of the dataset exactly once, in stored order, under both
\* representations; so has a query with one always-true predicate, and a
\* query with one always-false predicate has yielded nothing; none of them
\* raises.
C12_EmptyAndConstantFilters ==
    (call.op = "query"
       /\ call.filters \in {<<>>, <<Callable(Bool(TRUE))>>, <<Callable(Bool(FALSE))>>})
        => /\ call.status # "raised"
           /\ call.status = "done"
                 => IF call.filters = <<Callable(Bool(FALSE))>>
                    THEN call.yielded = <<>>
                    ELSE call.yielded = ApprIds /\ IsEveryEventOnce(call.yielded)

\* A query with one always-true predicate ran to its end over a mapped
\* dataset of three events under two keys.
C12_Witness ==
    /\ call.op = "query"
    /\ call.filters = <<Callable(Bool(TRUE))>>
    /\ call.status = "done"
    /\ use_map
    /\ Len(db_approaches) = 2
    /\ Len(call.yielded) = 3


\* No two NearEarthObjects of the input bear the same designation.
PairwiseDistinctDesignations ==
    \A i, j \in 1..Len(neoRows) :
        i # j => neoObj[i].designation # neoObj[j].designation

\* C13: after a construction over NEOs of pairwise distinct designations the
\* linkage is consistent in both directions: every approach in an Entity's
\* approaches refers to that Entity, every Event is in at most one Entity's
\* approaches and at most once there, and every Event with a neo is in that
\* Entity's approaches.  It holds of a construction that raised as well.
C13_LinkageIsConsistent ==
    (phase # "new" /\ PairwiseDistinctDesignations)
        => /\ \A e \in 1..Len(neoRows) : \A i \in 1..Len(neoObj[e].approaches) :
                 apprObj[neoObj[e].approaches[i]].neo = e
           /\ \A e1, e2 \in 1..Len(neoRows) :
                 \A i \in 1..Len(neoObj[e1].approaches),
                    j \in 1..Len(neoObj[e2].approaches) :
                    neoObj[e1].approaches[i] = neoObj[e2].approaches[j]
                       => e1 = e2 /\ i = j
           /\ \A x \in 1..Len(apprRecs) :
                 apprObj[x].neo # NoNeo
                    => x \in Range(neoObj[apprObj[x].neo].approaches)

\* A construction linked two Events to one Entity and one to another.
C13_Witness ==
    /\ phase = "ready"
    /\ Len(neoRows) = 2
    /\ PairwiseDistinctDesignations
    /\ \E e1, e2 \in 1..2 :
          Len(neoObj[e1].approaches) = 2 /\ Len(neoObj[e2].approaches) = 1


\* The position of event x in the stored order.
StoredPos(x) == CHOOSE p \in 1..Len(ApprIds) : ApprIds[p] = x

\* C14: at every point of a query's stream, under both representations: every
\* event yielded so far satisfies every filter; the yielded events are in
\* the relative order of the stored dataset (so none is yielded twice); and
\* the filters were called on each event in the given order, from the first
\* one, each one only after the one before it returned true on that event.
C14_QueryIsSound ==
    call.op = "query"
        => /\ \A x \in Range(call.yielded) : PassesAll(call.filters, x)
           /\ \A i, j \in 1..Len(call.yielded) :
                 i < j => StoredPos(call.yielded[i]) < StoredPos(call.yielded[j])
           /\ \A p \in 1..Len(call.evals) :
                 LET a == call.evals[p][1]
                     k == call.evals[p][2]
                 IN IF k = 1
                    THEN \A q \in 1..(p - 1) : call.evals[q][1] # a
                    ELSE /\ p > 1
                         /\ call.evals[p - 1] = <<a, k - 1>>
                         /\ Apply(call.filters[k - 1], apprObj[a], neoObj) = "True"

\* A query with two filters ran to its end having yielded an event, after
\* the first filter returned false on an earlier event, on which the second
\* filter was then not called.
C14_Witness ==
    /\ call.op = "query"
    /\ call.status = "done"
    /\ Len(call.filters) = 2
    /\ Len(call.yielded) >= 1
    /\ \E x \in Events :
          /\ Apply(call.filters[1], apprObj[x], neoObj) = "False"
          /\ StoredPos(x) < StoredPos(call.yielded[1])
          /\ \A p \in 1..Len(call.evals) : call.evals[p] # <<x, 2>>

====
